---- MODULE Spec2Model ----
(***************************************************************************)
(* Model of dup.py: the duplicate-file database (table "files" of rows     *)
(* (path, hash)), the file system it describes, and the commands of main   *)
(* that read and change them: HashDir/write, Integrity, DupCheck, Purge,   *)
(* Remove and close.                                                       *)
(*                                                                         *)
(* A path is a sequence of one-character strings, so that the raw string   *)
(* prefix of the LIKE query and the split("/") of sameDir are both         *)
(* computed the way the code computes them.                                *)
(***************************************************************************)
EXTENDS Integers, Sequences, FiniteSets, TLC

(***************************************************************************)
(* Bounds of the model.                                                    *)
(***************************************************************************)
\* number of invocations of the program (main) in one behaviour
MaxRuns == 2
\* number of changes made to the file system from outside the program
MaxExt == 1

(***************************************************************************)
(* The universe of files.                                                  *)
(***************************************************************************)
pAB  == <<"/", "a", "b">>
pAX  == <<"/", "a", "/", "x">>
pAY  == <<"/", "a", "/", "y">>
pBX  == <<"/", "b", "/", "x">>

Paths == {pAB, pAX, pAY, pBX}

\* the order in which os.walk("/") meets the files: top-down, the files of a
\* directory before its sub-directories, names in alphabetical order
WalkOrder == <<pAB, pAX, pAY, pBX>>

None == "None"
Raise == "Raise"

Contents == {"c1", "c2"}

\* hashlib.sha256 of a content: injective on the contents of the model
sha256(c) == IF c = "c1" THEN "H1" ELSE "H2"

\* What is at a path of the file system:
\*   absent  nothing
\*   file    a readable regular file with content c
\*   noperm  a regular file that open() refuses with PermissionError
\*   ioerr   a regular file whose open()/read() fails with another OSError
\*   link    a symbolic link to a readable regular file with content c
\*   broken  a symbolic link whose target does not exist
\*   locked  a readable regular file with content c that os.remove cannot
\*           unlink (PermissionError: its directory is not writable)
Absent == [k |-> "absent", c |-> "-"]
File(c) == [k |-> "file", c |-> c]
NoPerm == [k |-> "noperm", c |-> "-"]
IOErr == [k |-> "ioerr", c |-> "-"]
Link(c) == [k |-> "link", c |-> c]
Broken == [k |-> "broken", c |-> "-"]
Locked(c) == [k |-> "locked", c |-> c]

FileStates ==
    {Absent, NoPerm, IOErr, Broken}
        \cup {File(c) : c \in Contents}
        \cup {Link(c) : c \in Contents}
        \cup {Locked(c) : c \in Contents}

(***************************************************************************)
(* Strings and paths.                                                      *)
(***************************************************************************)
\* str.split("/")
RECURSIVE split(_)
split(s) ==
    IF s = <<>> THEN << <<>> >>
    ELSE LET r == split(Tail(s))
         IN  IF Head(s) = "/" THEN << <<>> >> \o r
             ELSE << <<Head(s)>> \o Head(r) >> \o Tail(r)

\* "/".join(segments)
RECURSIVE join(_)
join(segs) ==
    IF segs = <<>> THEN <<>>
    ELSE IF Len(segs) = 1 THEN Head(segs)
    ELSE Head(segs) \o <<"/">> \o join(Tail(segs))

\* the component stack of posixpath.normpath on an absolute path: empty and
\* "." components are dropped, ".." pops a component (and is dropped at the root)
RECURSIVE normComps(_, _)
normComps(segs, acc) ==
    IF segs = <<>> THEN acc
    ELSE LET comp == Head(segs)
         IN  IF comp = <<>> \/ comp = <<".">> THEN normComps(Tail(segs), acc)
             ELSE IF comp = <<".", ".">>
                  THEN normComps(Tail(segs),
                                 IF acc = <<>> THEN acc
                                 ELSE SubSeq(acc, 1, Len(acc) - 1))
             ELSE normComps(Tail(segs), Append(acc, comp))

\* the working directory of the process
cwd == <<"/", "a">>

\* os.path.abspath
abspath(p) ==
    LET full == IF p # <<>> /\ Head(p) = "/" THEN p ELSE cwd \o <<"/">> \o p
    IN  <<"/">> \o join(normComps(split(full), <<>>))

\* path LIKE prefix || '%' with case_sensitive_like=ON
like(path, prefix) ==
    /\ Len(prefix) <= Len(path)
    /\ SubSeq(path, 1, Len(prefix)) = prefix

sameDir(thePath, theFile) ==
    LET f == split(theFile)
        p == split(thePath)
    IN  IF Len(f) - Len(p) > 1 THEN FALSE
        ELSE \A z \in 1..(Len(f) - 1) : p[z] = f[z]

(***************************************************************************)
(* The file system probes.                                                 *)
(***************************************************************************)
\* os.path.exists and os.path.isfile follow symbolic links
exists(fsys, p) == p \in Paths /\ fsys[p].k \in {"file", "noperm", "ioerr", "link", "locked"}

isfile(fsys, p) == p \in Paths /\ fsys[p].k \in {"file", "noperm", "ioerr", "link", "locked"}

islink(fsys, p) == p \in Paths /\ fsys[p].k \in {"link", "broken"}

HashFile(fsys, theFile) ==
    IF ~exists(fsys, theFile) THEN None
    ELSE IF fsys[theFile].k = "noperm" THEN None
    ELSE IF fsys[theFile].k = "ioerr" THEN Raise
    ELSE sha256(fsys[theFile].c)

(***************************************************************************)
(* The table "files": a sequence of rows [path, hash] in rowid order.      *)
(***************************************************************************)
Row(p, h) == [path |-> p, hash |-> h]

\* the rows as a set
Rows(rows) == {rows[n] : n \in 1..Len(rows)}

\* select * from files where path=:p
selectPath(rows, p) == SelectSeq(rows, LAMBDA r : r.path = p)

\* select * from files where hash=?  (a NULL parameter equals no row)
selectHash(rows, h) ==
    IF h = None THEN <<>> ELSE SelectSeq(rows, LAMBDA r : r.hash = h)

\* select * from files where path like ?
selectLike(rows, prefix) == SelectSeq(rows, LAMBDA r : like(r.path, prefix))

\* delete from files where path=?
deletePath(rows, p) == SelectSeq(rows, LAMBDA r : r.path # p)

\* update files set hash=? where path=?
updateHash(rows, h, p) ==
    [n \in 1..Len(rows) |-> IF rows[n].path = p THEN Row(p, h) ELSE rows[n]]

\* the BINARY collation of sqlite: bytes compared by their codes
ord(ch) ==
    CASE ch = "." -> 46
      [] ch = "/" -> 47
      [] ch = "a" -> 97
      [] ch = "b" -> 98
      [] ch = "x" -> 120
      [] ch = "y" -> 121

RECURSIVE strLess(_, _)
strLess(s, t) ==
    IF t = <<>> THEN FALSE
    ELSE IF s = <<>> THEN TRUE
    ELSE IF Head(s) = Head(t) THEN strLess(Tail(s), Tail(t))
    ELSE ord(Head(s)) < ord(Head(t))

\* NULL sorts before every text value; the digests are compared as text
hashRank(h) == IF h = None THEN 0 ELSE IF h = "H1" THEN 1 ELSE 2

\* select * from files order by path
RECURSIVE insertByPath(_, _)
insertByPath(sorted, r) ==
    IF sorted = <<>> THEN <<r>>
    ELSE IF strLess(r.path, Head(sorted).path) THEN <<r>> \o sorted
    ELSE <<Head(sorted)>> \o insertByPath(Tail(sorted), r)

RECURSIVE orderByPath(_)
orderByPath(rows) ==
    IF rows = <<>> THEN <<>>
    ELSE insertByPath(orderByPath(SubSeq(rows, 1, Len(rows) - 1)), rows[Len(rows)])

\* select * from files order by hash (rows of one hash stay in rowid order)
RECURSIVE insertByHash(_, _)
insertByHash(sorted, r) ==
    IF sorted = <<>> THEN <<r>>
    ELSE IF hashRank(r.hash) < hashRank(Head(sorted).hash) THEN <<r>> \o sorted
    ELSE <<Head(sorted)>> \o insertByHash(Tail(sorted), r)

RECURSIVE orderByHash(_)
orderByHash(rows) ==
    IF rows = <<>> THEN <<>>
    ELSE insertByHash(orderByHash(SubSeq(rows, 1, Len(rows) - 1)), rows[Len(rows)])

\* write as it would be if it did not look for a row of the path
write_AlwaysInserts(rows, theHash, thePath) == Append(rows, Row(thePath, theHash))

\* write as it would be if it left the hash of a row it finds
write_KeepsOldHash(rows, theHash, thePath) ==
    LET matchingRecords == selectPath(rows, thePath)
    IN  IF Len(matchingRecords) = 0 THEN Append(rows, Row(thePath, theHash))
        ELSE rows

\* Database.write: insert the path when it has no row, else update a changed hash
write(rows, theHash, thePath) ==
    LET matchingRecords == selectPath(rows, thePath)
    IN  IF Len(matchingRecords) = 0 THEN Append(rows, Row(thePath, theHash))
        ELSE IF matchingRecords[1].hash # theHash
             THEN updateHash(rows, theHash, thePath)
             ELSE rows

(***************************************************************************)
(* The commands, one record at a time.  Each operator gives the effect of  *)
(* one iteration of the command's loop: the table and the file system      *)
(* after it, the lines it printed or logged as decisions, and whether an   *)
(* exception left the loop.                                                *)
(***************************************************************************)
Effect(rows, fsys, out, raised) ==
    [rows |-> rows, fsys |-> fsys, out |-> out, raised |-> raised]

\* the components of a normalised path
comps(p) == normComps(split(p), <<>>)

\* os.walk(thePath): every directory entry below thePath that is not a directory
walked(fsys, thePath) ==
    LET top == comps(abspath(thePath))
    IN  SelectSeq(WalkOrder,
                  LAMBDA p : /\ fsys[p].k # "absent"
                             /\ Len(top) < Len(comps(p))
                             /\ SubSeq(comps(p), 1, Len(top)) = top)

\* HashDir, one file: theDatabase.write(HashFile(theFilePath), theFilePath)
HashDirFile(rows, fsys, theFilePath) ==
    LET theHash == HashFile(fsys, theFilePath)
    IN  IF theHash = Raise THEN Effect(rows, fsys, <<>>, TRUE)
        ELSE Effect(write(rows, theHash, theFilePath), fsys, <<>>, FALSE)

\* DupCheck: the loop over the rows ordered by hash; a group is printed when
\* the next hash begins
RECURSIVE DupLoop(_, _, _, _)
DupLoop(recs, old_hash, pathList, out) ==
    IF recs = <<>> THEN out
    ELSE LET workingRecord == Head(recs)
         IN  IF old_hash # workingRecord.hash
             THEN DupLoop(Tail(recs), workingRecord.hash, <<workingRecord.path>>,
                          IF Len(pathList) > 1
                          THEN Append(out, <<old_hash, pathList>>)
                          ELSE out)
             ELSE DupLoop(Tail(recs), old_hash,
                          Append(pathList, workingRecord.path), out)

DupCheckOut(rows) == DupLoop(orderByHash(rows), "", <<>>, <<>>)

\* Integrity as it would be if a path that is no file kept its record
IntegrityRecord_KeepsMissing(rows, fsys, workingRecord, dry) ==
    IF isfile(fsys, workingRecord.path)
    THEN LET hash == HashFile(fsys, workingRecord.path)
         IN  IF hash = Raise THEN Effect(rows, fsys, <<>>, TRUE)
             ELSE IF workingRecord.hash # hash
             THEN Effect(IF dry THEN rows
                         ELSE updateHash(rows, hash, workingRecord.path),
                         fsys,
                         << <<"changed", workingRecord.path, workingRecord.hash, hash>> >>,
                         FALSE)
             ELSE Effect(rows, fsys, <<>>, FALSE)
    ELSE Effect(rows, fsys, << <<"missing", workingRecord.path>> >>, FALSE)

\* Integrity as it would be if a hash that HashFile could not compute were
\* reported but not stored
IntegrityRecord_SkipsNoHash(rows, fsys, workingRecord, dry) ==
    IF isfile(fsys, workingRecord.path)
    THEN LET hash == HashFile(fsys, workingRecord.path)
         IN  IF hash = Raise THEN Effect(rows, fsys, <<>>, TRUE)
             ELSE IF workingRecord.hash # hash
             THEN Effect(IF dry \/ hash = None THEN rows
                         ELSE updateHash(rows, hash, workingRecord.path),
                         fsys,
                         << <<"changed", workingRecord.path, workingRecord.hash, hash>> >>,
                         FALSE)
             ELSE Effect(rows, fsys, <<>>, FALSE)
    ELSE Effect(IF dry THEN rows ELSE deletePath(rows, workingRecord.path),
                fsys, << <<"missing", workingRecord.path>> >>, FALSE)

\* Integrity as it would be if a file that cannot be read lost its record
IntegrityRecord_DropsUnreadable(rows, fsys, workingRecord, dry) ==
    IF isfile(fsys, workingRecord.path)
    THEN LET hash == HashFile(fsys, workingRecord.path)
         IN  IF hash = Raise THEN Effect(rows, fsys, <<>>, TRUE)
             ELSE IF workingRecord.hash # hash
             THEN Effect(IF dry THEN rows
                         ELSE IF hash = None
                         THEN deletePath(rows, workingRecord.path)
                         ELSE updateHash(rows, hash, workingRecord.path),
                         fsys,
                         << <<"changed", workingRecord.path, workingRecord.hash, hash>> >>,
                         FALSE)
             ELSE Effect(rows, fsys, <<>>, FALSE)
    ELSE Effect(IF dry THEN rows ELSE deletePath(rows, workingRecord.path),
                fsys, << <<"missing", workingRecord.path>> >>, FALSE)

\* Integrity as it would be if it reported a changed hash and left the row
IntegrityRecord_ReportsOnly(rows, fsys, workingRecord, dry) ==
    IF isfile(fsys, workingRecord.path)
    THEN LET hash == HashFile(fsys, workingRecord.path)
         IN  IF hash = Raise THEN Effect(rows, fsys, <<>>, TRUE)
             ELSE IF workingRecord.hash # hash
             THEN Effect(rows, fsys,
                         << <<"changed", workingRecord.path, workingRecord.hash, hash>> >>,
                         FALSE)
             ELSE Effect(rows, fsys, <<>>, FALSE)
    ELSE Effect(IF dry THEN rows ELSE deletePath(rows, workingRecord.path),
                fsys, << <<"missing", workingRecord.path>> >>, FALSE)

\* Integrity, one record
IntegrityRecord(rows, fsys, workingRecord, dry) ==
    IF isfile(fsys, workingRecord.path)
    THEN LET hash == HashFile(fsys, workingRecord.path)
         IN  IF hash = Raise THEN Effect(rows, fsys, <<>>, TRUE)
             ELSE IF workingRecord.hash # hash
             THEN Effect(IF dry THEN rows
                         ELSE updateHash(rows, hash, workingRecord.path),
                         fsys,
                         << <<"changed", workingRecord.path, workingRecord.hash, hash>> >>,
                         FALSE)
             ELSE Effect(rows, fsys, <<>>, FALSE)
    ELSE Effect(IF dry THEN rows ELSE deletePath(rows, workingRecord.path),
                fsys, << <<"missing", workingRecord.path>> >>, FALSE)

\* "die" as it would be without the test of os.path.islink
die_NoLinkTest(fsys, duplicates) ==
    \E n \in 1..Len(duplicates) :
        \/ HashFile(fsys, duplicates[n].path) = None
        \/ duplicates[n].hash # HashFile(fsys, duplicates[n].path)

\* Purge: the flag "die" after the loop over the rows of the candidate's hash
die(fsys, duplicates) ==
    \E n \in 1..Len(duplicates) :
        \/ islink(fsys, duplicates[n].path)
        \/ HashFile(fsys, duplicates[n].path) = None
        \/ duplicates[n].hash # HashFile(fsys, duplicates[n].path)

\* Purge: HashFile raises on one of the rows of the candidate's hash
hashRaises(fsys, duplicates) ==
    \E n \in 1..Len(duplicates) : HashFile(fsys, duplicates[n].path) = Raise

\* Purge: the rows of the candidate's hash that sameDir puts in its directory
count(rows, workingRecord) ==
    LET same == selectHash(rows, workingRecord.hash)
    IN  Cardinality({n \in 1..Len(same) : sameDir(workingRecord.path, same[n].path)})

\* the checks of Purge as they would be without the test of a single row
purgeable_NoSingletonTest(rows, fsys, realPath, workingRecord) ==
    /\ sameDir(realPath, workingRecord.path)
    /\ ~die(fsys, selectHash(rows, workingRecord.hash))
    /\ ~(count(rows, workingRecord) # 1)

\* Purge: the candidate passes every check before "Purging file"
purgeable(rows, fsys, realPath, workingRecord) ==
    /\ sameDir(realPath, workingRecord.path)
    /\ ~die(fsys, selectHash(rows, workingRecord.hash))
    /\ ~(Len(selectHash(rows, workingRecord.hash)) < 2)
    /\ ~(count(rows, workingRecord) # 1)

\* os.remove raises (and removes nothing)
removeRaises(fsys, p) == fsys[p].k = "locked"

\* Purge, one record
PurgeRecord(rows, fsys, realPath, workingRecord, dry) ==
    IF ~sameDir(realPath, workingRecord.path) THEN Effect(rows, fsys, <<>>, FALSE)
    ELSE IF hashRaises(fsys, selectHash(rows, workingRecord.hash))
    THEN Effect(rows, fsys, <<>>, TRUE)
    ELSE IF ~purgeable(rows, fsys, realPath, workingRecord)
    THEN Effect(rows, fsys, <<>>, FALSE)
    ELSE IF dry
    THEN Effect(rows, fsys, << <<"Purging", workingRecord.path>> >>, FALSE)
    ELSE IF removeRaises(fsys, workingRecord.path)
    THEN Effect(deletePath(rows, workingRecord.path), fsys,
                << <<"Purging", workingRecord.path>> >>, TRUE)
    ELSE Effect(deletePath(rows, workingRecord.path),
                [fsys EXCEPT ![workingRecord.path] = Absent],
                << <<"Purging", workingRecord.path>> >>, FALSE)

\* Remove as it would be with the test of DRY_RUN inverted
RemoveRecord_InvertsDryRun(rows, fsys, workingRecord, dry) ==
    Effect(IF dry THEN deletePath(rows, workingRecord.path) ELSE rows,
           fsys, << <<"Removing", workingRecord.path>> >>, FALSE)

\* Remove as it would be if it did not look at DRY_RUN
RemoveRecord_IgnoresDryRun(rows, fsys, workingRecord, dry) ==
    Effect(deletePath(rows, workingRecord.path),
           fsys, << <<"Removing", workingRecord.path>> >>, FALSE)

\* Remove, one record
RemoveRecord(rows, fsys, workingRecord, dry) ==
    Effect(IF dry THEN rows ELSE deletePath(rows, workingRecord.path),
           fsys, << <<"Removing", workingRecord.path>> >>, FALSE)

(***************************************************************************)
(* A whole command: its loop run over the fetched rows from position n,    *)
(* up to the end or to the exception that leaves it.  The result is the    *)
(* effect of the command: the table, the file system, everything printed.  *)
(***************************************************************************)
RECURSIVE IntegrityLoop(_, _, _, _, _, _)
IntegrityLoop(rows, fsys, recs, n, dry, out) ==
    IF n > Len(recs) THEN Effect(rows, fsys, out, FALSE)
    ELSE LET e == IntegrityRecord(rows, fsys, recs[n], dry)
         IN  IF e.raised THEN Effect(e.rows, e.fsys, out \o e.out, TRUE)
             ELSE IntegrityLoop(e.rows, e.fsys, recs, n + 1, dry, out \o e.out)

Integrity(rows, fsys, dry) ==
    IntegrityLoop(rows, fsys, orderByPath(rows), 1, dry, <<>>)

RECURSIVE PurgeLoop(_, _, _, _, _, _, _)
PurgeLoop(rows, fsys, realPath, recs, n, dry, out) ==
    IF n > Len(recs) THEN Effect(rows, fsys, out, FALSE)
    ELSE LET e == PurgeRecord(rows, fsys, realPath, recs[n], dry)
         IN  IF e.raised THEN Effect(e.rows, e.fsys, out \o e.out, TRUE)
             ELSE PurgeLoop(e.rows, e.fsys, realPath, recs, n + 1, dry, out \o e.out)

Purge(rows, fsys, thePath, dry) ==
    PurgeLoop(rows, fsys, abspath(thePath), selectLike(rows, abspath(thePath)),
              1, dry, <<>>)

RECURSIVE RemoveLoop(_, _, _, _, _, _)
RemoveLoop(rows, fsys, recs, n, dry, out) ==
    IF n > Len(recs) THEN Effect(rows, fsys, out, FALSE)
    ELSE LET e == RemoveRecord(rows, fsys, recs[n], dry)
         IN  RemoveLoop(e.rows, e.fsys, recs, n + 1, dry, out \o e.out)

Remove(rows, fsys, thePath, dry) ==
    RemoveLoop(rows, fsys, selectLike(rows, abspath(thePath)), 1, dry, <<>>)

(***************************************************************************)
(* The state.                                                              *)
(***************************************************************************)
VARIABLES
    fs,            \* the file system: what is at each path
    committed,     \* table "files" as the database file holds it
    files,         \* table "files" as the open connection sees it
    pc,            \* where the program is: "idle" (not running), "main"
                   \* (between two commands), or the command whose loop runs
    stage,         \* the rank in theParameters of the last command started
    DRY_RUN,       \* the global set from --commit
    theRealPath,   \* Purge, Remove: abspath(thePath)
    fetched,       \* the rows of cur.fetchall(), or the files of os.walk
    i,             \* the position of the loop in fetched
    report,        \* the decisions the running command printed or logged
    runs,          \* invocations of the program so far
    ext,           \* changes made to the file system from outside so far
    purged,        \* history: the rows Purge deleted with their files, since
                   \* the last change of the table or of the file system
                   \* that Purge did not make
    verified       \* history: an Integrity that commits has completed, and
                   \* since then neither the table nor the file system
                   \* changed, but for the files Purge deleted with their rows

vars == <<fs, committed, files, pc, stage, DRY_RUN, theRealPath, fetched, i,
          report, runs, ext, purged, verified>>

\* the arguments given to --path
HashDirArgs == { <<"/">>, <<"/", "a">> }

\* the arguments given to --purge and --remove: a directory, a directory
\* with a trailing separator, and a file relative to the working directory
PrefixArgs == { <<"/", "a">>, <<"/", "b", "/">>, <<"x">> }

\* the file systems the program is started on: every file is there and
\* readable; in the last one /a/x cannot be unlinked
InitFS ==
    { [p \in Paths |-> File("c1")],
      [p \in Paths |-> IF p \in {pAB, pAX} THEN File("c1") ELSE File("c2")],
      [p \in Paths |-> IF p = pAY THEN File("c2") ELSE File("c1")],
      [p \in Paths |-> IF p = pAB THEN File("c1")
                       ELSE IF p = pAX THEN Locked("c2") ELSE File("c2")] }

\* the rank of a command in theParameters
rank(cmd) ==
    CASE cmd = "HashDir" -> 1
      [] cmd = "Integrity" -> 2
      [] cmd = "DupCheck" -> 3
      [] cmd = "Purge" -> 4
      [] cmd = "Remove" -> 5

Init ==
    /\ fs \in InitFS
    /\ committed = <<>>
    /\ files = <<>>
    /\ pc = "idle"
    /\ stage = 0
    /\ DRY_RUN = TRUE
    /\ theRealPath = <<>>
    /\ fetched = <<>>
    /\ i = 1
    /\ report = <<>>
    /\ runs = 0
    /\ ext = 0
    /\ purged = {}
    /\ verified = FALSE

\* the loop variables of a command that is not running
NoLoop ==
    /\ theRealPath' = <<>>
    /\ fetched' = <<>>
    /\ i' = 1
    /\ report' = <<>>

\* main: parse the arguments, set DRY_RUN, open the database (initDB)
Start(dry) ==
    /\ pc = "idle"
    /\ runs < MaxRuns
    /\ runs' = runs + 1
    /\ pc' = "main"
    /\ stage' = 0
    /\ DRY_RUN' = dry
    /\ files' = committed
    /\ UNCHANGED <<fs, committed, theRealPath, fetched, i, report, ext, purged, verified>>

\* a command of rank r may start now
MayStart(cmd) == pc = "main" /\ stage < rank(cmd)

\* one iteration of a loop made effect e: go on, or leave by the exception
Step(e) ==
    /\ files' = e.rows
    /\ fs' = e.fsys
    /\ report' = report \o e.out
    /\ i' = i + 1
    /\ pc' = IF e.raised THEN "raised" ELSE pc
    /\ UNCHANGED <<stage, DRY_RUN, theRealPath, fetched, runs, ext>>

\* the loop of command cmd is over: back to main's dispatch
Done(cmd) ==
    /\ pc = cmd
    /\ i > Len(fetched)
    /\ pc' = "main"
    /\ NoLoop
    /\ UNCHANGED <<fs, committed, files, stage, DRY_RUN, runs, ext, purged>>

HashDirStart(thePath) ==
    /\ MayStart("HashDir")
    /\ pc' = "HashDir"
    /\ stage' = rank("HashDir")
    /\ fetched' = walked(fs, thePath)
    /\ i' = 1
    /\ report' = <<>>
    /\ UNCHANGED <<fs, committed, files, DRY_RUN, theRealPath, runs, ext, purged, verified>>

\* write commits its transaction (with self.con)
HashDirStep ==
    /\ pc = "HashDir"
    /\ i <= Len(fetched)
    /\ LET e == HashDirFile(files, fs, fetched[i])
       IN  /\ Step(e)
           /\ committed' = IF e.raised THEN committed ELSE e.rows
    /\ verified' = (verified /\ files' = files)
    /\ purged' = IF files' # files THEN {} ELSE purged

HashDirDone ==
    /\ Done("HashDir")
    /\ UNCHANGED verified

IntegrityStart ==
    /\ MayStart("Integrity")
    /\ pc' = "Integrity"
    /\ stage' = rank("Integrity")
    /\ fetched' = orderByPath(files)
    /\ i' = 1
    /\ report' = <<>>
    /\ UNCHANGED <<fs, committed, files, DRY_RUN, theRealPath, runs, ext, purged, verified>>

IntegrityStep ==
    /\ pc = "Integrity"
    /\ i <= Len(fetched)
    /\ Step(IntegrityRecord(files, fs, fetched[i], DRY_RUN))
    /\ purged' = IF files' # files THEN {} ELSE purged
    /\ UNCHANGED <<committed, verified>>

IntegrityDone ==
    /\ Done("Integrity")
    /\ verified' = (verified \/ ~DRY_RUN)

DupCheck ==
    /\ MayStart("DupCheck")
    /\ pc' = "DupCheck"
    /\ stage' = rank("DupCheck")
    /\ fetched' = orderByHash(files)
    /\ i' = Len(fetched') + 1
    /\ report' = DupCheckOut(files)
    /\ UNCHANGED <<fs, committed, files, DRY_RUN, theRealPath, runs, ext, purged, verified>>

DupCheckDone ==
    /\ Done("DupCheck")
    /\ UNCHANGED verified

PurgeStart(thePath) ==
    /\ MayStart("Purge")
    /\ pc' = "Purge"
    /\ stage' = rank("Purge")
    /\ theRealPath' = abspath(thePath)
    /\ fetched' = selectLike(files, abspath(thePath))
    /\ i' = 1
    /\ report' = <<>>
    /\ UNCHANGED <<fs, committed, files, DRY_RUN, runs, ext, purged, verified>>

PurgeStep ==
    /\ pc = "Purge"
    /\ i <= Len(fetched)
    /\ Step(PurgeRecord(files, fs, theRealPath, fetched[i], DRY_RUN))
    /\ purged' = IF fs' # fs THEN purged \cup {fetched[i]} ELSE purged
    /\ UNCHANGED <<committed, verified>>

PurgeDone ==
    /\ Done("Purge")
    /\ UNCHANGED verified

RemoveStart(thePath) ==
    /\ MayStart("Remove")
    /\ pc' = "Remove"
    /\ stage' = rank("Remove")
    /\ theRealPath' = abspath(thePath)
    /\ fetched' = selectLike(files, abspath(thePath))
    /\ i' = 1
    /\ report' = <<>>
    /\ UNCHANGED <<fs, committed, files, DRY_RUN, runs, ext, purged, verified>>

RemoveStep ==
    /\ pc = "Remove"
    /\ i <= Len(fetched)
    /\ Step(RemoveRecord(files, fs, fetched[i], DRY_RUN))
    /\ purged' = IF files' # files THEN {} ELSE purged
    /\ verified' = (verified /\ files' = files)
    /\ UNCHANGED committed

RemoveDone ==
    /\ Done("Remove")
    /\ UNCHANGED verified

\* Database.close: commit, then the program ends
Close ==
    /\ pc = "main"
    /\ committed' = files
    /\ pc' = "idle"
    /\ UNCHANGED <<fs, files, stage, DRY_RUN, theRealPath, fetched, i, report,
                   runs, ext, purged, verified>>

\* an exception nobody catches ends the program: close is not reached, and
\* what the connection had not committed is rolled back
Traceback ==
    /\ pc = "raised"
    /\ pc' = "idle"
    /\ files' = committed
    /\ NoLoop
    /\ verified' = (verified /\ files' = files)
    /\ UNCHANGED <<fs, committed, stage, DRY_RUN, runs, ext, purged>>

\* the process is interrupted (a signal, KeyboardInterrupt) while Purge goes
\* through its records: close is not reached, and what the connection had
\* not committed is rolled back
Interrupt ==
    /\ pc = "Purge"
    /\ pc' = "idle"
    /\ files' = committed
    /\ NoLoop
    /\ verified' = (verified /\ files' = files)
    /\ UNCHANGED <<fs, committed, stage, DRY_RUN, runs, ext, purged>>

\* the world outside changes what is at a path, while no command runs
ExternalChange(p, st) ==
    /\ pc \in {"idle", "main"}
    /\ ext < MaxExt
    /\ fs[p] # st
    /\ fs' = [fs EXCEPT ![p] = st]
    /\ ext' = ext + 1
    /\ purged' = {}
    /\ verified' = FALSE
    /\ UNCHANGED <<committed, files, pc, stage, DRY_RUN, theRealPath, fetched, i,
                   report, runs>>

Next ==
    \/ \E dry \in BOOLEAN : Start(dry)
    \/ \E thePath \in HashDirArgs : HashDirStart(thePath)
    \/ HashDirStep
    \/ HashDirDone
    \/ IntegrityStart
    \/ IntegrityStep
    \/ IntegrityDone
    \/ DupCheck
    \/ DupCheckDone
    \/ \E thePath \in PrefixArgs : PurgeStart(thePath)
    \/ PurgeStep
    \/ PurgeDone
    \/ \E thePath \in PrefixArgs : RemoveStart(thePath)
    \/ RemoveStep
    \/ RemoveDone
    \/ Close
    \/ Traceback
    \/ Interrupt
    \/ \E p \in Paths, st \in FileStates : ExternalChange(p, st)

Spec == Init /\ [][Next]_vars

(***************************************************************************)
(* The words of the claims, defined without the code's own tests.          *)
(***************************************************************************)
\* the directory a path is located in: its components but the last
parentDir(p) == SubSeq(comps(p), 1, Len(comps(p)) - 1)

\* the digest of the content a path holds on disk, None when it holds none
\* that can be read
contentDigest(fsys, p) ==
    IF fsys[p].k \in {"file", "link", "locked"} THEN sha256(fsys[p].c) ELSE None

\* the duplicate group of a digest: the records of the Index that store it
group(rows, h) == {r \in Rows(rows) : r.hash = h}

\* the last record a running loop has dealt with
last == fetched[i - 1]

\* the record the running loop deals with next
current == fetched[i]

\* C1: Purge safety.  Whenever a step of Purge deletes a file from disk, the
\* file is the candidate's, and in the state the candidate was evaluated in
\* (a) the digest recomputed from the candidate equals the digest its record
\* stores, (b) every other record storing that digest has a readable file that
\* is no symbolic link and whose recomputed digest equals the stored one, and
\* (c) no other record of the group is located in the candidate's directory.
C1_PurgeSafety ==
    [][(pc = "Purge" /\ fs' # fs) =>
        /\ ~DRY_RUN
        /\ fs' = [fs EXCEPT ![current.path] = Absent]
        /\ \A r \in Rows(files) : r.path = current.path =>
              /\ r = current
              /\ contentDigest(fs, r.path) = r.hash
        /\ \A r \in group(files, current.hash) \ {current} :
              /\ contentDigest(fs, r.path) = r.hash
              /\ fs[r.path].k \notin {"noperm", "ioerr", "absent"}
              /\ fs[r.path].k \notin {"link", "broken"}
              /\ parentDir(r.path) # parentDir(current.path)
      ]_vars

\* C1 witness: a Purge that commits has just deleted a file of which the
\* Index still holds two other copies
C1_Witness ==
    /\ pc = "Purge"
    /\ ~DRY_RUN
    /\ i > 1
    /\ last \in purged
    /\ fs[last.path] = Absent
    /\ Cardinality(group(files, last.hash)) >= 2

\* C2: Purge never deletes the last copy.  After any sequence of calls of
\* Purge, and as long as nothing else changes the file system or the Index,
\* the Index holds for every file Purge deleted a record of the same digest
\* whose file is on disk with that content, in another directory than the
\* deleted file.
C2_NeverLastCopy ==
    \A d \in purged :
        \E r \in Rows(files) :
            /\ r.hash = d.hash
            /\ contentDigest(fs, r.path) = d.hash
            /\ parentDir(r.path) # parentDir(d.path)

\* C3: dry-run frame.  While DRY_RUN is set, no step of Integrity, Purge or
\* Remove (their start, their iterations, their end, an exception leaving
\* them) changes the Index, in the connection or in the database file, or
\* the file system.
C3_DryRunFrame ==
    [][(DRY_RUN /\ (pc \in {"Integrity", "Purge", "Remove"}
                     \/ pc' \in {"Integrity", "Purge", "Remove"})) =>
        (files' = files /\ committed' = committed /\ fs' = fs)
      ]_vars

\* C3 witness: a dry run of Purge has decided to purge a file, and the file
\* and its record are still there
C3_Witness ==
    /\ pc = "Purge"
    /\ DRY_RUN
    /\ i > 1
    /\ report # <<>>
    /\ report[Len(report)] = <<"Purging", last.path>>
    /\ last \in Rows(files)
    /\ fs[last.path] # Absent

\* the groups findDuplicates is to report: for each digest of the Index that
\* two or more records store, in ascending order, the digest with its paths
expectedGroups(rows) ==
    LET dup(h) == Cardinality(group(rows, h)) >= 2
        entry(h) == <<h, {r.path : r \in group(rows, h)}>>
    IN  (IF dup("H1") THEN <<entry("H1")>> ELSE <<>>)
            \o (IF dup("H2") THEN <<entry("H2")>> ELSE <<>>)

\* what DupCheck printed: each group's digest with the set of its paths,
\* the groups of records without a digest left out
reportedGroups ==
    LET real == SelectSeq(report, LAMBDA g : g[1] # None)
    IN  [n \in 1..Len(real) |->
            <<real[n][1], {real[n][2][m] : m \in 1..Len(real[n][2])}>>]

\* C4: findDuplicates reports exactly the digest groups of two or more
\* records, each once with all its paths, in ascending digest order.
C4_DupCheckReportsGroups ==
    pc = "DupCheck" => reportedGroups = expectedGroups(files)

\* the scope of purge(pathPrefix): the direct children of a directory, or
\* the files of the directory a file is in
inScope(prefix, p) ==
    IF prefix \in Paths THEN parentDir(p) = parentDir(prefix)
    ELSE parentDir(p) = comps(prefix)

\* C5: Purge scope.  Every path Purge decides to purge is a direct child of
\* the directory pathPrefix names, or resides in the directory of the file
\* pathPrefix names.
C5_PurgeScope ==
    pc = "Purge" =>
        \A n \in 1..Len(report) : inScope(theRealPath, report[n][2])

\* the group of record wr is fresh and free of symbolic links
freshGroup(rows, fsys, wr) ==
    \A r \in group(rows, wr.hash) :
        /\ contentDigest(fsys, r.path) = r.hash
        /\ fsys[r.path].k \notin {"link", "broken"}

\* the members of wr's group located in wr's directory, wr included
collisions(rows, wr) ==
    Cardinality({r \in group(rows, wr.hash) : parentDir(r.path) = parentDir(wr.path)})

\* C6: the same-directory collision rule is exact.  A step of a Purge that
\* commits, on an in-scope candidate whose group is fresh, free of links and
\* of two members or more, deletes the candidate if and only if exactly one
\* member of the group (the candidate) is located in the candidate's
\* directory.
C6_CollisionRuleExact ==
    [][(/\ pc = "Purge"
        /\ ~DRY_RUN
        /\ i <= Len(fetched)
        /\ i' = i + 1
        /\ inScope(theRealPath, current.path)
        /\ current \in Rows(files)
        /\ freshGroup(files, fs, current)
        /\ Cardinality(group(files, current.hash)) >= 2)
       =>
       ((fs'[current.path] = Absent /\ current \notin Rows(files'))
            <=> collisions(files, current) = 1)
      ]_vars

\* C7: dry-run trace equivalence.  From any state the program can be in
\* between two commands and for any argument, each of Purge, Integrity and
\* Remove prints the same decisions with DRY_RUN set as without.
C7_DryRunSameDecisions ==
    pc = "main" =>
        /\ \A thePath \in PrefixArgs :
              Purge(files, fs, thePath, TRUE).out = Purge(files, fs, thePath, FALSE).out
        /\ Integrity(files, fs, TRUE).out = Integrity(files, fs, FALSE).out
        /\ \A thePath \in PrefixArgs :
              Remove(files, fs, thePath, TRUE).out = Remove(files, fs, thePath, FALSE).out

C9_IntegrityIdempotent ==
    (pc = "Integrity" /\ verified) =>
        /\ report = <<>>
        /\ Rows(files) = Rows(fetched)

\* C9 witness: the second Integrity is over, it commits, and the Index
\* holds a record of a file that cannot be read
C9_Witness ==
    /\ pc = "Integrity"
    /\ verified
    /\ ~DRY_RUN
    /\ i > Len(fetched)
    /\ \E r \in Rows(files) : fs[r.path].k = "noperm" /\ r.hash = None

\* C10: no single bad file aborts a batch.  No exception leaves the loop of
\* Purge or of Integrity.
C10_NoBatchAbort ==
    ~(pc = "raised" /\ stage \in {rank("Integrity"), rank("Purge")})

\* C11: removeUnder containment.  When a Remove that commits has gone through
\* its records, the records it removed are exactly those that pass the scope
\* filter of Purge (the direct children of a directory prefix, the files of
\* the directory of a file prefix): no record out of that scope is gone, and
\* none in it is left.
C11_RemoveContainment ==
    (pc = "Remove" /\ ~DRY_RUN /\ i > Len(fetched)) =>
        /\ \A n \in 1..Len(fetched) :
              fetched[n] \notin Rows(files) => inScope(theRealPath, fetched[n].path)
        /\ \A r \in Rows(files) : ~inScope(theRealPath, r.path)

\* the path is the prefix, or lies below the directory the prefix names
under(prefix, p) ==
    /\ Len(comps(prefix)) <= Len(comps(p))
    /\ SubSeq(comps(p), 1, Len(comps(prefix))) = comps(prefix)

\* C12 as stated: after Remove, with DRY_RUN set or not, no record under the
\* prefix is left in the Index.
C12_RemoveInEitherMode ==
    (pc = "Remove" /\ i > Len(fetched)) =>
        \A r \in Rows(files) : ~under(theRealPath, r.path)

\* C12 as amended: after a Remove that commits no record under the prefix is
\* left in the Index; after a Remove with DRY_RUN set every record it went
\* through is reported and still in the Index.
C12_RemoveUnlessDryRun ==
    (pc = "Remove" /\ i > Len(fetched)) =>
        /\ ~DRY_RUN => \A r \in Rows(files) : ~under(theRealPath, r.path)
        /\ DRY_RUN =>
              /\ Rows(fetched) \subseteq Rows(files)
              /\ report = [n \in 1..Len(fetched) |-> <<"Removing", fetched[n].path>>]

\* C12 witness: a Remove that commits has removed two records or more and
\* left another, and every file is where it was
C12_Witness ==
    /\ pc = "Remove"
    /\ ~DRY_RUN
    /\ i > Len(fetched)
    /\ Len(fetched) >= 2
    /\ files # <<>>
    /\ \A n \in 1..Len(fetched) :
          fetched[n] \notin Rows(files) /\ fs[fetched[n].path] # Absent

\* no content can be reached at the path: nothing is there, or a symbolic
\* link to nothing
gone(fsys, p) == fsys[p].k \in {"absent", "broken"}

digestsOf(rows, p) == {r.hash : r \in {q \in Rows(rows) : q.path = p}}

\* C14: upsert round trip.  After write(d, p) the Index maps p to d and to d
\* only, whether it held no record of p, a record of p with digest d, or a
\* record of p with another digest; and the records of the other paths are
\* what they were.
C14_UpsertRoundTrip ==
    [][(pc = "HashDir" /\ i <= Len(fetched) /\ pc' = "HashDir") =>
        /\ digestsOf(files', current) = {HashFile(fs, current)}
        /\ digestsOf(committed', current) = {HashFile(fs, current)}
        /\ \A p \in Paths \ {current} : digestsOf(files', p) = digestsOf(files, p)
        /\ Len(files') = IF digestsOf(files, current) = {} THEN Len(files) + 1
                         ELSE Len(files)
      ]_vars

\* C14 witness: HashDir has just written the first file of its walk, of
\* which the Index held a record before, as of other files, and the digest
\* is not the one the file had when the program was first started
C14_Witness ==
    /\ pc = "HashDir"
    /\ i = 2
    /\ Len(files) >= 2
    /\ files[1].path = last
    /\ files[1].hash = "H2"
    /\ last = pAB

\* C15: path uniqueness.  Starting from the empty Index, whatever commands
\* ran and with whatever arguments, the Index holds at most one record per
\* path, in the connection and in the database file.
C15_OnePathOneRecord ==
    /\ \A m, n \in 1..Len(files) : files[m].path = files[n].path => m = n
    /\ \A m, n \in 1..Len(committed) :
          committed[m].path = committed[n].path => m = n

\* C15 witness: a walk over the whole tree, in the second run of the program,
\* has written every file; the record of /ab had been removed and is back,
\* and the Index holds the four paths
C15_Witness ==
    /\ pc = "HashDir"
    /\ runs = 2
    /\ i > Len(fetched)
    /\ Len(fetched) = 4
    /\ Len(files) = 4
    /\ files[1].path # pAB

\* C16: verify-then-purge ordering.  In a Purge that runs after an Integrity
\* that committed, with no change of the file system in between, every record
\* stores the digest of what its file holds now (none for a file that cannot
\* be read), so that the group of a digest is the set of records whose files
\* hold that content; and no candidate that sameDir puts in scope is refused
\* for a digest that differs from the recomputed one: the test of its group
\* fails only on a symbolic link.
C16_PurgeAfterIntegrity ==
    (pc = "Purge" /\ verified) =>
        /\ \A r \in Rows(files) : r.hash = contentDigest(fs, r.path)
        /\ \A h \in {sha256(c) : c \in Contents} :
              group(files, h) = {r \in Rows(files) : contentDigest(fs, r.path) = h}
        /\ \A n \in i..Len(fetched) :
              (/\ fetched[n] \in Rows(files)
               /\ die(fs, selectHash(files, fetched[n].hash)))
                  => \E r \in group(files, fetched[n].hash) : islink(fs, r.path)

\* C16 witness: in one run of the program Integrity corrected a record, and
\* the Purge that follows has just deleted a file whose group holds the
\* corrected record
C16_Witness ==
    /\ pc = "Purge"
    /\ verified
    /\ ~DRY_RUN
    /\ i > 1
    /\ last \in purged
    /\ fs[last.path] = Absent
    /\ \E r \in group(files, last.hash) : r \notin Rows(committed)

\* C17: batch continuation.  Every step by which Purge has dealt with a
\* record of its batch leaves Purge running, at the next record or at the
\* end of the batch: whatever happened to a candidate, the candidates after
\* it are evaluated, each once.
C17_BatchContinuation ==
    [][(pc = "Purge" /\ i <= Len(fetched) /\ i' = i + 1 /\ fetched' = fetched) =>
        pc' = "Purge"
      ]_vars

\* the paths of the records of a table
pathsOf(rows) == {r.path : r \in Rows(rows)}

\* C18: interruption durability.  When the program ends in the middle of a
\* Purge that commits, interrupted or by an exception, the database file
\* holds no record of a file Purge deleted, and holds a record of every path
\* of the batch whose file Purge did not delete.
C18_InterruptionDurability ==
    [][(stage = rank("Purge") /\ pc \in {"Purge", "raised"} /\ pc' = "idle") =>
        /\ \A d \in purged : d.path \notin pathsOf(committed')
        /\ \A r \in Rows(fetched) :
              r.path \notin pathsOf(committed') => fs'[r.path] = Absent
      ]_vars

\* C19: no cached groups within a batch.  A step of Purge on a candidate of
\* whose digest the Index, as it is now, holds no other record, deletes
\* nothing: neither the record nor the file; so a candidate whose only
\* duplicates were deleted earlier in the batch is kept.
C19_GroupsNotCached ==
    [][(pc = "Purge" /\ i <= Len(fetched) /\ pc' = "Purge"
            /\ Cardinality(group(files, current.hash)) < 2) =>
        (files' = files /\ fs' = fs)
      ]_vars

\* C19 witness: a Purge that commits deleted a file, and has then kept a
\* later candidate of the same digest, the only record of that digest left
C19_Witness ==
    /\ pc = "Purge"
    /\ ~DRY_RUN
    /\ i > 2
    /\ last \in Rows(files)
    /\ fs[last.path] = File(fs[last.path].c)
    /\ group(files, last.hash) = {last}
    /\ \E n \in 1..(i - 2) :
          /\ fetched[n] \in purged
          /\ fetched[n].hash = last.hash
          /\ fetched[n] \notin Rows(files)

\* C20: every record holds a real digest.  No record of the Index stores
\* None for a digest, whatever HashDir and Integrity met on disk, and
\* DupCheck reports no group of records without a digest.
C20_NoRecordWithoutDigest ==
    /\ \A r \in Rows(files) : r.hash # None
    /\ pc = "DupCheck" => \A n \in 1..Len(report) : report[n][1] # None

====
